---------------------------- MODULE Spec2Model ----------------------------
(***************************************************************************)
(* Two independent diagnostic scripts of the repository:                   *)
(*                                                                         *)
(*   test_oauth_server.py  the challenge stub server (OAuthTestHandler and *)
(*                         run_server);                                    *)
(*   test-mcp-client.py    the request prober (send_jsonrpc_request and    *)
(*                         main).                                          *)
(*                                                                         *)
(* The scripts share no code and no state.  Each has its own variables,    *)
(* its own next-state relation and its own specification (ServerSpec,      *)
(* ProberSpec and their fair versions); a step of one leaves the other's   *)
(* variables unchanged.                                                    *)
(***************************************************************************)
EXTENDS Integers, Sequences, FiniteSets, TLC

VARIABLES
    \* ---- test_oauth_server.py ----
    srv_pc,          \* position of run_server
    is_shut_down,    \* httpd's "serve loop has finished" event
    shutdown_request,\* httpd's request to leave the serve loop
    log,             \* the last exchanges answered: <<request, response>> records
    srv_out,         \* lines printed by run_server
    \* ---- test-mcp-client.py ----
    pc,              \* position of main
    step,            \* index in StepOrder of the step main is in
    out,             \* lines printed so far (tags)
    attempts,        \* the steps whose network call was started, in order
    outcomes,        \* how each finished step ended
    sock,            \* the two raw sockets: "none", "open", "closed"
    response,        \* chunks accumulated by the current read loop (saturating)
    iter,            \* parity of the read loop's iterations
    request,         \* the envelope send_jsonrpc_request last built
    http,            \* what requests.post last did
    ret,             \* what send_jsonrpc_request last did
    sys_exit,        \* the status of a SystemExit in flight, -1 when none
    exit_code        \* -1 while running, then the process's exit status

svars == <<srv_pc, is_shut_down, shutdown_request, log, srv_out>>
pvars == <<pc, step, out, attempts, outcomes, sock, response, iter, request,
           http, ret, sys_exit, exit_code>>
vars == <<svars, pvars>>

(***************************************************************************)
(* Bounds of the model.                                                    *)
(***************************************************************************)
MaxRequests == 2
MaxTokenLen == 1
MaxChunks == 1

(***************************************************************************)
(* Python values: None and str.  A str is a sequence of one-character      *)
(* strings, so that startswith is computed character by character.         *)
(***************************************************************************)
None == [isNone |-> TRUE, str |-> <<>>]

Str(s) == [isNone |-> FALSE, str |-> s]

\* Python truthiness of an Optional[str]: None and "" are falsy.
Truthy(v) == ~v.isNone /\ Len(v.str) > 0

\* str.startswith(prefix)
startswith(s, prefix) ==
    /\ Len(s) >= Len(prefix)
    /\ SubSeq(s, 1, Len(prefix)) = prefix

BearerPrefix == <<"B", "e", "a", "r", "e", "r", " ">>

TokenChars == {"a"}

RECURSIVE SeqsUpTo(_, _)
SeqsUpTo(S, n) ==
    IF n = 0 THEN {<<>>}
    ELSE LET shorter == SeqsUpTo(S, n - 1)
         IN  shorter \cup {Append(t, c) : t \in shorter, c \in S}

Tokens == SeqsUpTo(TokenChars, MaxTokenLen)

\* Scheme words that are not the exact prefix 'Bearer ': wrong case, another
\* scheme, no blank after the word.  (A value never starts with a blank: the
\* header parser strips blanks after the colon.)
OtherSchemes ==
    { <<"b", "e", "a", "r", "e", "r", " ">>,
      <<"B", "a", "s", "i", "c", " ">>,
      <<"B", "e", "a", "r", "e", "r">> }

\* The values self.headers.get('Authorization') is given in the model: absent,
\* every prefix of 'Bearer ' (the empty string and the bare prefix included),
\* 'Bearer <token>', and near misses followed by a token.
AuthValues ==
    {None}
    \cup {Str(SubSeq(BearerPrefix, 1, k)) : k \in 0..Len(BearerPrefix)}
    \cup {Str(BearerPrefix \o t) : t \in Tokens}
    \cup {Str(s \o <<"a">>) : s \in OtherSchemes}

Methods == {"GET", "POST"}

(***************************************************************************)
(* json.dumps of a flat dict of strings, with Python's default separators  *)
(* (", " between items and ": " between key and value), keys in insertion  *)
(* order.  A dict is a sequence of <<key, value>> pairs.                   *)
(***************************************************************************)
RECURSIVE json_items(_)
json_items(d) ==
    IF Len(d) = 0 THEN ""
    ELSE LET item == "\"" \o d[1][1] \o "\": \"" \o d[1][2] \o "\""
         IN  IF Len(d) = 1 THEN item
             ELSE item \o ", " \o json_items(Tail(d))

json_dumps(d) == "{" \o json_items(d) \o "}"

(***************************************************************************)
(* OAuthTestHandler                                                        *)
(***************************************************************************)
Realm == "Bearer realm=\"http://localhost:8080/realms/master\""

\* A mutant of do_GET: a granted bearer request opens a session, and later
\* requests are granted without a credential.
do_GET_session(auth_header) ==
    IF \/ Truthy(auth_header) /\ startswith(auth_header.str, BearerPrefix)
       \/ \E i \in DOMAIN log : log[i].resp.status = 200
    THEN [status  |-> 200,
          headers |-> << <<"Content-Type", "application/json">> >>,
          body    |-> json_dumps(<< <<"status", "authenticated">>,
                                    <<"message", "Access granted with token">> >>)]
    ELSE [status  |-> 401,
          headers |-> << <<"WWW-Authenticate", Realm>>,
                         <<"Content-Type", "application/json">> >>,
          body    |-> json_dumps(<< <<"error", "unauthorized">>,
                                    <<"message", "Authentication required">> >>)]

\* A mutant of do_GET: the prefix test without its trailing blank.
do_GET_noblank(auth_header) ==
    IF Truthy(auth_header)
       /\ startswith(auth_header.str, SubSeq(BearerPrefix, 1, 6))
    THEN [status  |-> 200,
          headers |-> << <<"Content-Type", "application/json">> >>,
          body    |-> json_dumps(<< <<"status", "authenticated">>,
                                    <<"message", "Access granted with token">> >>)]
    ELSE [status  |-> 401,
          headers |-> << <<"WWW-Authenticate", Realm>>,
                         <<"Content-Type", "application/json">> >>,
          body    |-> json_dumps(<< <<"error", "unauthorized">>,
                                    <<"message", "Authentication required">> >>)]

\* A mutant of do_GET: the two response dicts swapped.
do_GET_swapped(auth_header) ==
    IF Truthy(auth_header) /\ startswith(auth_header.str, BearerPrefix)
    THEN [status  |-> 200,
          headers |-> << <<"Content-Type", "application/json">> >>,
          body    |-> json_dumps(<< <<"error", "unauthorized">>,
                                    <<"message", "Authentication required">> >>)]
    ELSE [status  |-> 401,
          headers |-> << <<"WWW-Authenticate", Realm>>,
                         <<"Content-Type", "application/json">> >>,
          body    |-> json_dumps(<< <<"status", "authenticated">>,
                                    <<"message", "Access granted with token">> >>)]

\* do_GET: the response the handler writes (send_response, its send_header
\* calls in order, and the body written to wfile).
do_GET(auth_header) ==
    IF Truthy(auth_header) /\ startswith(auth_header.str, BearerPrefix)
    THEN [status  |-> 200,
          headers |-> << <<"Content-Type", "application/json">> >>,
          body    |-> json_dumps(<< <<"status", "authenticated">>,
                                    <<"message", "Access granted with token">> >>)]
    ELSE [status  |-> 401,
          headers |-> << <<"WWW-Authenticate", Realm>>,
                         <<"Content-Type", "application/json">> >>,
          body    |-> json_dumps(<< <<"error", "unauthorized">>,
                                    <<"message", "Authentication required">> >>)]

\* A mutant of do_POST: POST answered without the challenge header.
do_POST_nochallenge(auth_header) ==
    LET r == do_GET(auth_header)
    IN  [r EXCEPT !.headers = << <<"Content-Type", "application/json">> >>]

\* do_POST: "Same logic for POST requests".
do_POST(auth_header) == do_GET(auth_header)

\* The handler method BaseHTTPRequestHandler picks for the request's method.
Dispatch(method, auth_header) ==
    IF method = "GET" THEN do_GET(auth_header) ELSE do_POST(auth_header)

\* The window of exchanges the model remembers.
Remember(l, e) ==
    LET l2 == Append(l, e)
    IN  IF Len(l2) > MaxRequests THEN Tail(l2) ELSE l2

(***************************************************************************)
(* run_server                                                              *)
(***************************************************************************)
ServerInit ==
    /\ srv_pc = "start"
    /\ is_shut_down = FALSE
    /\ shutdown_request = FALSE
    /\ log = <<>>
    /\ srv_out = <<>>

\* HTTPServer(...) and the three start-up lines, then serve_forever() is
\* entered: it clears the event before its loop.
StartServer ==
    /\ srv_pc = "start"
    /\ srv_out' = srv_out \o <<"Starting OAuth test server on http://127.0.0.1:23880",
                               "Server will return 401 with WWW-Authenticate header",
                               "Press Ctrl+C to stop">>
    /\ is_shut_down' = FALSE
    /\ srv_pc' = "serve_forever"
    /\ UNCHANGED <<shutdown_request, log, pvars>>

\* One request served by the serve_forever loop.
HandleRequest ==
    /\ srv_pc = "serve_forever"
    /\ ~shutdown_request
    /\ \E method \in Methods, auth_header \in AuthValues :
          log' = Remember(log, [method |-> method,
                                auth   |-> auth_header,
                                resp   |-> Dispatch(method, auth_header)])
    /\ UNCHANGED <<srv_pc, is_shut_down, shutdown_request, srv_out, pvars>>

\* Ctrl+C while serve_forever runs: KeyboardInterrupt leaves serve_forever
\* through its finally block, which resets the request flag and sets the event.
Interrupt ==
    /\ srv_pc = "serve_forever"
    /\ shutdown_request' = FALSE
    /\ is_shut_down' = TRUE
    /\ srv_pc' = "raised"
    /\ UNCHANGED <<log, srv_out, pvars>>

\* A mutant of CatchKeyboardInterrupt: the except clause names another
\* exception, so the interrupt leaves run_server as a traceback.
CatchOtherException ==
    /\ srv_pc = "raised"
    /\ srv_pc' = "crashed"
    /\ UNCHANGED <<is_shut_down, shutdown_request, log, srv_out, pvars>>

\* except KeyboardInterrupt: print the shutdown message.
CatchKeyboardInterrupt ==
    /\ srv_pc = "raised"
    /\ srv_out' = Append(srv_out, "\nShutting down server...")
    /\ srv_pc' = "shutdown"
    /\ UNCHANGED <<is_shut_down, shutdown_request, log, pvars>>

\* httpd.shutdown(), first half: ask the serve loop to stop.
ShutdownCall ==
    /\ srv_pc = "shutdown"
    /\ shutdown_request' = TRUE
    /\ srv_pc' = "shutdown_wait"
    /\ UNCHANGED <<is_shut_down, log, srv_out, pvars>>

\* httpd.shutdown(), second half: wait for the event; then run_server returns.
ShutdownWait ==
    /\ srv_pc = "shutdown_wait"
    /\ is_shut_down
    /\ srv_pc' = "returned"
    /\ UNCHANGED <<is_shut_down, shutdown_request, log, srv_out, pvars>>

ServerNext ==
    \/ StartServer
    \/ HandleRequest
    \/ Interrupt
    \/ CatchKeyboardInterrupt
    \/ ShutdownCall
    \/ ShutdownWait

(***************************************************************************)
(* test-mcp-client.py: send_jsonrpc_request                                *)
(***************************************************************************)
ErrorCode == -32000

DefaultRequestId == 1

NoParams == [isNone |-> TRUE]

Params(v) == [isNone |-> FALSE, value |-> v]

ClientInfo == [name |-> "test-mcp-client", version |-> "1.0.0"]

init_params ==
    [clientInfo |-> ClientInfo, protocolVersion |-> "0.1.0", capabilities |-> "{}"]

echo_params ==
    [name |-> "echo", arguments |-> [text |-> "Hello from test-mcp-client!"]]

\* The fixed order of the steps of main.
StepOrder ==
    <<"raw GET probe", "initialize", "tools/list", "resources/list",
      "tools/call", "raw initialize POST">>

\* The params main passes for the structured call at a step.
ParamsOf(s) ==
    CASE s = 2 -> Params(init_params)
      [] s = 5 -> Params(echo_params)
      [] OTHER -> NoParams

\* The line main prints before the response of the structured call at a step.
LabelOf(s) ==
    CASE s = 2 -> "\nInitialization response:"
      [] s = 3 -> "\nTools list response:"
      [] s = 4 -> "\nResources list response:"
      [] OTHER -> "\nEcho tool response:"

\* JSON bodies a server may send: a result, and an error of the server's own
\* (another id, another code than the client-made envelope).
ServerError ==
    [jsonrpc |-> "2.0", id |-> 7,
     error |-> [code |-> -32601, message |-> "Method not found"]]

ServerJson == { [jsonrpc |-> "2.0", id |-> 1, result |-> "ok"], ServerError }

StatusCodes == {200, 204, 500}

\* What requests.post(...) and response.json() can do: raise (refused,
\* timed out), or give a response with a status code whose body parses as JSON
\* or does not.
HttpOutcomes ==
    { [kind |-> "exception", text |-> t] :
        t \in {"Connection refused", "Read timed out"} }
    \cup { [kind |-> "response", status_code |-> 200, json_ok |-> TRUE, json |-> j] :
             j \in ServerJson }
    \cup { [kind |-> "response", status_code |-> s, json_ok |-> TRUE,
             json |-> ServerError] : s \in StatusCodes \ {200} }
    \cup { [kind |-> "response", status_code |-> 200, json_ok |-> FALSE] }

\* The request envelope: "params" only when params is not None.
BuildRequest(method, params, request_id) ==
    IF params.isNone
    THEN [jsonrpc |-> "2.0", id |-> request_id, method |-> method]
    ELSE [jsonrpc |-> "2.0", id |-> request_id, method |-> method,
          params |-> params.value]

ErrorEnvelope(request_id, message) ==
    [jsonrpc |-> "2.0", id |-> request_id,
     error |-> [code |-> ErrorCode, message |-> message]]

\* A mutant of send_jsonrpc_request: every 2xx status is taken as success.
send_jsonrpc_request_2xx(method, params, request_id, h) ==
    LET req  == BuildRequest(method, params, request_id)
        sent == <<"Sending request: " \o method>>
    IN  IF h.kind = "exception"
        THEN [kind |-> "return", request |-> req,
              printed |-> Append(sent, "Error sending request: " \o h.text),
              value |-> ErrorEnvelope(request_id, "Request error: " \o h.text)]
        ELSE IF h.status_code >= 200 /\ h.status_code < 300
        THEN IF h.json_ok
             THEN [kind |-> "return", request |-> req, printed |-> sent,
                   value |-> h.json]
             ELSE [kind |-> "return", request |-> req,
                   printed |-> Append(sent, "Error sending request: Expecting value"),
                   value |-> ErrorEnvelope(request_id, "Request error: Expecting value")]
        ELSE [kind |-> "return", request |-> req,
              printed |-> Append(sent, "Error: Received status code "
                                        \o ToString(h.status_code)),
              value |-> ErrorEnvelope(request_id,
                                      "HTTP error: " \o ToString(h.status_code))]

\* A mutant of send_jsonrpc_request: no except clause around the POST.
send_jsonrpc_request_raises(method, params, request_id, h) ==
    LET req  == BuildRequest(method, params, request_id)
        sent == <<"Sending request: " \o method>>
    IN  IF h.kind = "exception"
        THEN [kind |-> "raise", request |-> req, printed |-> sent]
        ELSE IF h.status_code = 200
        THEN IF h.json_ok
             THEN [kind |-> "return", request |-> req, printed |-> sent,
                   value |-> h.json]
             ELSE [kind |-> "raise", request |-> req, printed |-> sent]
        ELSE [kind |-> "return", request |-> req,
              printed |-> Append(sent, "Error: Received status code "
                                        \o ToString(h.status_code)),
              value |-> ErrorEnvelope(request_id,
                                      "HTTP error: " \o ToString(h.status_code))]

\* send_jsonrpc_request, given what the POST does: what it prints and returns.
send_jsonrpc_request(method, params, request_id, h) ==
    LET req  == BuildRequest(method, params, request_id)
        sent == <<"Sending request: " \o method>>
    IN  IF h.kind = "exception"
        THEN [kind |-> "return", request |-> req,
              printed |-> Append(sent, "Error sending request: " \o h.text),
              value |-> ErrorEnvelope(request_id, "Request error: " \o h.text)]
        ELSE IF h.status_code = 200
        THEN IF h.json_ok
             THEN [kind |-> "return", request |-> req, printed |-> sent,
                   value |-> h.json]
             ELSE [kind |-> "return", request |-> req,
                   printed |-> Append(sent, "Error sending request: Expecting value"),
                   value |-> ErrorEnvelope(request_id, "Request error: Expecting value")]
        ELSE [kind |-> "return", request |-> req,
              printed |-> Append(sent, "Error: Received status code "
                                        \o ToString(h.status_code)),
              value |-> ErrorEnvelope(request_id,
                                      "HTTP error: " \o ToString(h.status_code))]

\* How a structured call ended, as recorded in outcomes.
CallOutcome(h) ==
    IF h.kind = "exception"
    THEN (IF h.text = "Connection refused" THEN "refused" ELSE "timeout")
    ELSE IF h.status_code # 200 THEN "status"
    ELSE IF h.json_ok THEN "ok" ELSE "bad json"

(***************************************************************************)
(* test-mcp-client.py: main                                                *)
(***************************************************************************)
Disconnected == "\nDisconnected from MCP server"

NoCall == [kind |-> "none"]

\* Which of the two raw sockets a step uses.
SockOf(s) == IF s = 1 THEN 1 ELSE 2

Min(a, b) == IF a < b THEN a ELSE b

ProberInit ==
    /\ pc = "start"
    /\ step = 1
    /\ out = <<>>
    /\ attempts = <<>>
    /\ outcomes = <<>>
    /\ sock = <<"none", "none">>
    /\ response = 0
    /\ iter = 0
    /\ request = NoCall
    /\ http = NoCall
    /\ ret = NoCall
    /\ sys_exit = -1
    /\ exit_code = -1

\* The first line of main, entering the outer try.
Start ==
    /\ pc = "start"
    /\ out' = Append(out, "Connecting to MCP server via HTTP SSE: http://127.0.0.1:8080")
    /\ pc' = "sock_new"
    /\ UNCHANGED <<step, attempts, outcomes, sock, response, iter, request,
                   http, ret, sys_exit, exit_code, svars>>

\* print(...); socket.socket(...); settimeout(5): outside the step's own try, so
\* an OSError here goes to the top-level handler.
SockNew ==
    /\ pc = "sock_new"
    /\ out' = Append(out, IF step = 1 THEN "Using a direct socket connection:"
                          ELSE "\nSending JSON-RPC request using a socket:")
    /\ \E created \in BOOLEAN :
          IF created
          THEN /\ sock' = [sock EXCEPT ![SockOf(step)] = "open"]
               /\ pc' = "sock_connect"
               /\ UNCHANGED outcomes
          ELSE /\ outcomes' = Append(outcomes, "no socket")
               /\ pc' = "except_top"
               /\ UNCHANGED sock
    /\ UNCHANGED <<step, attempts, response, iter, request, http, ret,
                   sys_exit, exit_code, svars>>

\* sock.connect(("127.0.0.1", 8080))
SockConnect ==
    /\ pc = "sock_connect"
    /\ attempts' = Append(attempts, StepOrder[step])
    /\ \E r \in {"ok", "refused", "connect timeout"} :
          IF r = "ok"
          THEN pc' = "sock_send" /\ UNCHANGED outcomes
          ELSE pc' = "sock_except" /\ outcomes' = Append(outcomes, r)
    /\ UNCHANGED <<step, out, sock, response, iter, request, http, ret,
                   sys_exit, exit_code, svars>>

\* Build the request text (the POST prints it), sock.sendall(...), then
\* "Waiting for response..." and response = b"".
SockSend ==
    /\ pc = "sock_send"
    /\ \E sent \in BOOLEAN :
          LET shown == IF step = 1 THEN out ELSE Append(out, "Sending request:")
          IN  IF sent
              THEN /\ out' = Append(shown, "Waiting for response...")
                   /\ response' = 0
                   /\ pc' = "sock_recv"
                   /\ UNCHANGED outcomes
              ELSE /\ out' = shown
                   /\ outcomes' = Append(outcomes, "send failed")
                   /\ pc' = "sock_except"
                   /\ UNCHANGED response
    /\ UNCHANGED <<step, attempts, sock, iter, request, http, ret, sys_exit,
                   exit_code, svars>>

\* One iteration of the read loop in which recv returns data: accumulate, print
\* and loop.  The model counts chunks up to MaxChunks and prints that many
\* "Received" lines; further iterations only flip iter.
RecvData ==
    /\ pc = "sock_recv"
    /\ response' = Min(response + 1, MaxChunks)
    /\ out' = IF response < MaxChunks THEN Append(out, "Received bytes") ELSE out
    /\ iter' = 1 - iter
    /\ UNCHANGED <<pc, step, attempts, outcomes, sock, request, http, ret,
                   sys_exit, exit_code, svars>>

\* recv returns b"": the peer closed; break.
RecvClosed ==
    /\ pc = "sock_recv"
    /\ outcomes' = Append(outcomes, "ok")
    /\ iter' = 0
    /\ pc' = "sock_print"
    /\ UNCHANGED <<step, out, attempts, sock, response, request, http,
                   ret, sys_exit, exit_code, svars>>

\* recv raises socket.timeout: print and break.
RecvTimeout ==
    /\ pc = "sock_recv"
    /\ out' = Append(out, "Socket timed out")
    /\ outcomes' = Append(outcomes, "read timeout")
    /\ iter' = 0
    /\ pc' = "sock_print"
    /\ UNCHANGED <<step, attempts, sock, response, request, http, ret,
                   sys_exit, exit_code, svars>>

\* recv raises another exception (connection reset).
RecvError ==
    /\ pc = "sock_recv"
    /\ outcomes' = Append(outcomes, "reset")
    /\ iter' = 0
    /\ pc' = "sock_except"
    /\ UNCHANGED <<step, out, attempts, sock, response, request, http,
                   ret, sys_exit, exit_code, svars>>

\* print("Response:"); print(response.decode(...))
SockPrint ==
    /\ pc = "sock_print"
    /\ out' = out \o <<"Response:", "response.decode()">>
    /\ pc' = "sock_finally"
    /\ UNCHANGED <<step, attempts, outcomes, sock, response, iter, request,
                   http, ret, sys_exit, exit_code, svars>>

\* A mutant of SockExcept: the step has no except clause; the socket is closed
\* by the finally and the exception goes on to the top-level handler.
SockExcept_propagates ==
    /\ pc = "sock_except"
    /\ sock' = [sock EXCEPT ![SockOf(step)] = "closed"]
    /\ pc' = "except_top"
    /\ UNCHANGED <<step, out, attempts, outcomes, response, iter, request,
                   http, ret, sys_exit, exit_code, svars>>

\* except Exception as e: print(f"Socket error: {e}")
SockExcept ==
    /\ pc = "sock_except"
    /\ out' = Append(out, "Socket error: " \o outcomes[Len(outcomes)])
    /\ pc' = "sock_finally"
    /\ UNCHANGED <<step, attempts, outcomes, sock, response, iter, request,
                   http, ret, sys_exit, exit_code, svars>>

\* finally: sock.close(); then the statement after the step.
SockFinally ==
    /\ pc = "sock_finally"
    /\ sock' = [sock EXCEPT ![SockOf(step)] = "closed"]
    /\ pc' = IF step = 1 THEN "connected" ELSE "finally_top"
    /\ UNCHANGED <<step, out, attempts, outcomes, response, iter, request,
                   http, ret, sys_exit, exit_code, svars>>

\* print("Connected to MCP server via HTTP SSE")
Connected ==
    /\ pc = "connected"
    /\ out' = Append(out, "Connected to MCP server via HTTP SSE")
    /\ step' = 2
    /\ pc' = "call"
    /\ UNCHANGED <<attempts, outcomes, sock, response, iter, request, http,
                   ret, sys_exit, exit_code, svars>>

\* A mutant of Call: a call that comes back with an error envelope ends the
\* sequence.
Call_abort ==
    /\ pc = "call"
    /\ \E h \in HttpOutcomes :
          LET r == send_jsonrpc_request(StepOrder[step], ParamsOf(step),
                                        DefaultRequestId, h)
          IN  /\ request' = r.request
              /\ http' = h
              /\ ret' = r
              /\ attempts' = Append(attempts, StepOrder[step])
              /\ outcomes' = Append(outcomes, CallOutcome(h))
              /\ out' = out \o r.printed
              /\ IF "error" \in DOMAIN r.value
                 THEN pc' = "except_top" /\ UNCHANGED step
                 ELSE /\ step' = step + 1
                      /\ pc' = IF step = 5 THEN "sock_new" ELSE "call"
    /\ UNCHANGED <<sock, response, iter, sys_exit, exit_code, svars>>

\* One structured call: x_response = send_jsonrpc_request(...), then the two
\* prints of the response.
Call ==
    /\ pc = "call"
    /\ \E h \in HttpOutcomes :
          LET r == send_jsonrpc_request(StepOrder[step], ParamsOf(step),
                                        DefaultRequestId, h)
          IN  /\ request' = r.request
              /\ http' = h
              /\ ret' = r
              /\ attempts' = Append(attempts, StepOrder[step])
              /\ IF r.kind = "raise"
                 THEN /\ outcomes' = Append(outcomes, "raised")
                      /\ out' = out \o r.printed
                      /\ pc' = "except_top"
                      /\ UNCHANGED step
                 ELSE /\ outcomes' = Append(outcomes, CallOutcome(h))
                      /\ out' = out \o r.printed
                                    \o <<LabelOf(step), "json.dumps(response, indent=2)">>
                      /\ step' = step + 1
                      /\ pc' = IF step = 5 THEN "sock_new" ELSE "call"
    /\ UNCHANGED <<sock, response, iter, sys_exit, exit_code, svars>>

\* A mutant of ExceptTop: the handler ends the process at once (os._exit), so
\* the finally clause does not run.
ExceptTop_hard_exit ==
    /\ pc = "except_top"
    /\ out' = Append(out, "Error: " \o outcomes[Len(outcomes)])
    /\ exit_code' = 1
    /\ pc' = "exited"
    /\ UNCHANGED <<step, attempts, outcomes, sock, response, iter, request,
                   http, ret, sys_exit, svars>>

\* except Exception as e: print(f"Error: {e}"); sys.exit(1).  SystemExit is
\* raised inside the handler and the finally clause runs before it leaves main.
\* (The handler before it, except requests.exceptions.RequestException, has no
\* action: send_jsonrpc_request catches every exception of requests.post, so
\* nothing in the try block raises a RequestException.)
ExceptTop ==
    /\ pc = "except_top"
    /\ out' = Append(out, "Error: " \o outcomes[Len(outcomes)])
    /\ sys_exit' = 1
    /\ pc' = "finally_top"
    /\ UNCHANGED <<step, attempts, outcomes, sock, response, iter, request,
                   http, ret, exit_code, svars>>

\* finally: print("\nDisconnected from MCP server"); then main returns (status
\* 0) or the SystemExit in flight ends the process with its status.
FinallyTop ==
    /\ pc = "finally_top"
    /\ out' = Append(out, Disconnected)
    /\ exit_code' = IF sys_exit = -1 THEN 0 ELSE sys_exit
    /\ pc' = "exited"
    /\ UNCHANGED <<step, attempts, outcomes, sock, response, iter, request,
                   http, ret, sys_exit, svars>>

ProberNext ==
    \/ Start
    \/ SockNew
    \/ SockConnect
    \/ SockSend
    \/ RecvData
    \/ RecvClosed
    \/ RecvTimeout
    \/ RecvError
    \/ SockPrint
    \/ SockExcept
    \/ SockFinally
    \/ Connected
    \/ Call
    \/ ExceptTop
    \/ FinallyTop

(***************************************************************************)
(* Specifications.  Each script runs alone; the other stays in its initial *)
(* state.  The prober is one thread that always takes its next step; of    *)
(* the server only the steps after the interrupt are required to happen    *)
(* (requests and the interrupt come from outside).                         *)
(***************************************************************************)
Init == ServerInit /\ ProberInit

ServerSpec == Init /\ [][ServerNext]_vars

ServerFairSpec ==
    /\ ServerSpec
    /\ WF_vars(CatchKeyboardInterrupt)
    /\ WF_vars(ShutdownCall)
    /\ WF_vars(ShutdownWait)

ProberSpec == Init /\ [][ProberNext]_vars

ProberFairSpec == ProberSpec /\ WF_vars(ProberNext)

(***************************************************************************)
(* Properties.                                                             *)
(***************************************************************************)
Range(f) == {f[i] : i \in DOMAIN f}

IsPrefix(a, b) == Len(a) <= Len(b) /\ a = SubSeq(b, 1, Len(a))

\* The value is a string whose first seven characters are B e a r e r blank.
HasBearerPrefix(v) ==
    /\ ~v.isNone
    /\ Len(v.str) >= 7
    /\ <<v.str[1], v.str[2], v.str[3], v.str[4], v.str[5], v.str[6], v.str[7]>>
         = <<"B", "e", "a", "r", "e", "r", " ">>

HeaderNames(r) == {r.headers[k][1] : k \in DOMAIN r.headers}

Header(r, name) == {r.headers[k][2] : k \in {k \in DOMAIN r.headers : r.headers[k][1] = name}}

SuccessBody == "{\"status\": \"authenticated\", \"message\": \"Access granted with token\"}"

ChallengeBody == "{\"error\": \"unauthorized\", \"message\": \"Authentication required\"}"

\* C1: every answered request whose Authorization header is absent or does not
\* start with 'Bearer ' got status 401 with the header WWW-Authenticate:
\* Bearer realm="http://localhost:8080/realms/master"; every request whose
\* header starts with 'Bearer ' (any token) got status 200 and no
\* WWW-Authenticate header; no other status is ever sent.
C1_Decision ==
    \A i \in DOMAIN log :
        LET e == log[i]
        IN  IF HasBearerPrefix(e.auth)
            THEN /\ e.resp.status = 200
                 /\ "WWW-Authenticate" \notin HeaderNames(e.resp)
            ELSE /\ e.resp.status = 401
                 /\ Header(e.resp, "WWW-Authenticate")
                      = {"Bearer realm=\"http://localhost:8080/realms/master\""}

\* C1's case: a bearer request with a token was granted, and a near miss
\* ('Bearer' with no blank before the token) was challenged.
C1_Witness ==
    /\ Len(log) = 2
    /\ log[1].auth = Str(<<"B", "e", "a", "r", "e", "r", " ", "a">>)
    /\ log[1].resp.status = 200
    /\ log[2].auth = Str(<<"B", "e", "a", "r", "e", "r", "a">>)
    /\ log[2].resp.status = 401

\* C2: the response to a request does not depend on the requests answered
\* before it: two requests with the same Authorization header got the same
\* status, headers and body wherever they stand in the sequence, and a request
\* without a bearer value is challenged with 401 also when an earlier request
\* was granted 200.
C2_NoSession ==
    /\ \A i, j \in DOMAIN log :
          i < j /\ log[i].auth = log[j].auth => log[i].resp = log[j].resp
    /\ \A j \in DOMAIN log :
          /\ \E i \in 1..(j - 1) : log[i].resp.status = 200
          /\ ~HasBearerPrefix(log[j].auth)
          => log[j].resp.status = 401

\* C2's case: a request without a credential, answered after a granted one.
C2_Witness ==
    /\ Len(log) = 2
    /\ log[1].resp.status = 200
    /\ log[2].auth = None
    /\ log[2].resp.status = 401

\* C3: a POST and a GET with the same Authorization header got the same status
\* code, the same response headers and the same body.
C3_GetPostEqual ==
    \A i, j \in DOMAIN log :
        /\ log[i].method = "GET"
        /\ log[j].method = "POST"
        /\ log[i].auth = log[j].auth
        => /\ log[i].resp.status = log[j].resp.status
           /\ log[i].resp.headers = log[j].resp.headers
           /\ log[i].resp.body = log[j].resp.body

\* C3's case: a GET and a POST without a credential, both challenged.
C3_Witness ==
    /\ Len(log) = 2
    /\ log[1].method = "GET"
    /\ log[2].method = "POST"
    /\ log[1].auth = None
    /\ log[2].auth = None
    /\ log[2].resp.status = 401

\* C4: every 200 response has Content-Type application/json and the success
\* body, every 401 response has Content-Type application/json and the
\* challenge body (as json.dumps writes them), and there is no other status.
C4_BodyMatchesStatus ==
    \A i \in DOMAIN log :
        LET r == log[i].resp
        IN  /\ r.status \in {200, 401}
            /\ Header(r, "Content-Type") = {"application/json"}
            /\ r.status = 200 => r.body = SuccessBody
            /\ r.status = 401 => r.body = ChallengeBody

\* C4's case: one response of each kind has been sent.
C4_Witness ==
    /\ Len(log) = 2
    /\ log[1].resp.status = 200
    /\ log[1].resp.body = SuccessBody
    /\ log[2].resp.status = 401
    /\ log[2].resp.body = ChallengeBody

Count(q, x) == Cardinality({k \in DOMAIN q : q[k] = x})

\* C5: until main has ended the message 'Disconnected from MCP server' is not
\* printed; once it has ended, with status 0 or 1, the message has been printed
\* exactly once and is the last line printed.
C5_DisconnectedOnce ==
    /\ pc # "exited" => Count(out, Disconnected) = 0
    /\ pc = "exited" =>
          /\ exit_code \in {0, 1}
          /\ Count(out, Disconnected) = 1
          /\ out[Len(out)] = Disconnected

\* C5's case: main ended through the top-level handler, with status 1.
C5_Witness ==
    /\ pc = "exited"
    /\ exit_code = 1
    /\ out[Len(out) - 1] = "Error: no socket"
    /\ out[Len(out)] = Disconnected

\* The initial probe met a transport-level connection error: no socket, the
\* connection refused or timed out, the send failed, the connection was reset.
ProbeConnectionError ==
    /\ Len(outcomes) >= 1
    /\ outcomes[1] \in {"no socket", "refused", "connect timeout", "send failed",
                        "reset"}

\* C6 as stated: the process exits with status 1 when the initial probe met a
\* transport-level connection error, and with status 0 in every other run.
C6_Original ==
    pc = "exited" => (exit_code = 1 <=> ProbeConnectionError)

\* C6 as amended: a refused or timed-out connection in the initial probe is
\* handled inside the step and the prober goes on; the process exits with
\* status 1 exactly when an exception reached the top-level handler, which
\* only a failure to create a raw socket does, and with status 0 otherwise.
C6_ExitStatus ==
    /\ pc # "exited" => exit_code = -1
    /\ pc = "except_top" => outcomes[Len(outcomes)] = "no socket"
    /\ pc = "exited" =>
          exit_code = (IF "no socket" \in Range(outcomes) THEN 1 ELSE 0)

\* C6's case: the initial probe was refused and the process exited with 0.
C6_Witness ==
    /\ pc = "exited"
    /\ outcomes[1] = "refused"
    /\ "Socket error: refused" \in Range(out)
    /\ exit_code = 0

\* C7: send_jsonrpc_request always returns.  It returns the server's parsed
\* JSON only for status 200 with a body that parses; in every other case
\* (transport failure, any status other than 200, a 200 body that is not JSON)
\* it returns its own envelope: jsonrpc '2.0', the id of the request sent and
\* error.code -32000, with message 'HTTP error: <status>' for a status other
\* than 200.  After the call main is at the next step, never in the top-level
\* handler.
C7_AlwaysEnvelope ==
    ret.kind # "none" =>
        /\ ret.kind = "return"
        /\ "raised" \notin Range(outcomes)
        /\ pc = "call" => step = Len(attempts) + 1
        /\ IF http.kind = "response" /\ http.status_code = 200 /\ http.json_ok
           THEN ret.value = http.json
           ELSE /\ DOMAIN ret.value = {"jsonrpc", "id", "error"}
                /\ ret.value.jsonrpc = "2.0"
                /\ ret.value.id = request.id
                /\ ret.value.error.code = -32000
                /\ http.kind = "response" /\ http.status_code = 500
                     => ret.value.error.message = "HTTP error: 500"
                /\ http.kind = "response" /\ http.status_code = 204
                     => ret.value.error.message = "HTTP error: 204"

\* C7's case: 'initialize' was answered with status 500, the envelope was made
\* locally, and main is about to send 'tools/list'.
C7_Witness ==
    /\ pc = "call"
    /\ step = 3
    /\ request.method = "initialize"
    /\ http.kind = "response"
    /\ http.status_code = 500
    /\ ret.value = [jsonrpc |-> "2.0", id |-> 1,
                    error |-> [code |-> -32000, message |-> "HTTP error: 500"]]

\* C8: the steps are attempted in the fixed order, each at most once; when main
\* has ended, every step has been attempted exactly once whatever the outcomes
\* (success, refused connection, timeout, reset, status other than 200, body
\* that is not JSON), and only a failure to create a raw socket, which is
\* outside the step's own handler, leaves the steps from that one on
\* unattempted.
C8_OrderAndIsolation ==
    /\ IsPrefix(attempts, StepOrder)
    /\ pc = "exited" =>
          IF "no socket" \in Range(outcomes)
          THEN attempts = SubSeq(StepOrder, 1, Len(outcomes) - 1)
          ELSE attempts = StepOrder /\ Len(outcomes) = 6

\* C8's case: the raw probe was refused, a call got a status other than 200,
\* another a transport failure, and all six steps were attempted.
C8_Witness ==
    /\ pc = "exited"
    /\ outcomes[1] = "refused"
    /\ outcomes[2] = "status"
    /\ outcomes[3] = "refused"
    /\ outcomes[6] = "connect timeout"
    /\ attempts = StepOrder

C10_EveryStepEnds ==
    /\ <>(pc = "exited")
    /\ [](pc \in {"connected", "call"} => sock[1] = "closed")
    /\ [](pc \in {"finally_top", "exited"} => sock[2] \in {"none", "closed"})

=============================================================================
